---- MODULE Spec2Model ----
(***************************************************************************)
(* A model of the Azure Functions extension for VS Code: activation        *)
(* (extension.ts), the func task provider (FuncTaskProvider), the          *)
(* pickFuncProcess command with its process-tree helpers, and the deploy   *)
(* command (commands/deploy.ts).  The editor is the environment: it        *)
(* delivers task events, fires timers, answers dialogs and invokes the     *)
(* registered commands one at a time.                                      *)
(***************************************************************************)
EXTENDS Integers, Sequences, FiniteSets, TLC

VARIABLES
    mode,          \* what the extension host is running: "activating", "idle", "deploy", "pick", "tasks"
    apc,           \* position inside activate()
    ext,           \* which of ext.outputChannel, ext.ui, ext.tree are assigned
    registered,    \* the command ids registered so far, in registration order
    providers,     \* how many times the func task provider has been registered
    ppc,           \* position inside pickFuncProcess
    isWindows,     \* constants.isWindows, as read by the running pickFuncProcess
    timeoutInSeconds, \* the pickProcessTimeout setting of the running pickFuncProcess
    waitForStartPromise, \* startFuncTask: the promise the two listeners and the timer settle
    listener,      \* startFuncTask: the onDidStartTaskProcess listener is registered
    errorListener, \* startFuncTask: the onDidEndTaskProcess listener is registered
    timer,         \* startFuncTask: the setTimeout callback has not fired yet
    events,        \* the task events and timer firings since the promise was created, in order
    pid,           \* the pid string startFuncTask resolved with
    now,           \* Date.now(), in units of the 500 ms delay
    maxTime,       \* getInnermostWindowsPid: the deadline
    psTree,        \* the process tree (Windows) or descendant list (Unix) last reported
    pickResult,    \* how pickFuncProcess settled
    tpc,           \* position inside provideTasks
    workspaceFolders, \* workspace.workspaceFolders, as seen by the running provideTasks
    platform,      \* process.platform
    pyExtension,   \* the state of the ms-python.python extension
    folderIndex,   \* provideTasks: the folder the loop is at
    result,        \* provideTasks: the tasks pushed so far
    tasksOutcome,  \* how provideTasks settled
    dpc,           \* position inside deploy
    deployFsPath,  \* deploy: the folder to deploy, as path segments
    node,          \* deploy: the selected function app node
    newNodes,      \* deploy: the nodes reported by onTreeItemCreate while the listener was registered
    onNodeCreated, \* deploy: the onTreeItemCreate listener is registered
    created,       \* the nodes created in the tree during this deploy run
    language,      \* deploy: the project language
    runtime,       \* deploy: the project runtime
    confirmDeployment, \* deploy: whether the overwrite confirmation is wanted
    siteConfig,    \* deploy: the site configuration read from the client
    isZipDeploy,   \* deploy: the value computed from siteConfig
    taskSetting,   \* runPreDeployTask: the preDeployTask setting
    taskName,      \* runPreDeployTask: the name looked up
    tasks,         \* runPreDeployTask: the tasks fetchTasks returned
    preDeployTask, \* runPreDeployTask: the index in tasks of the task found, 0 for none
    taskProcess,   \* the pre-deploy task's process: "none", "running", "ended"
    endListener,   \* runPreDeployTask: the onDidEndTaskProcess listener is registered
    endPromise,    \* runPreDeployTask: the promise the listener settles
    otherEnds,     \* how many other tasks' processes ended during the wait
    pendingError,  \* deploy: the error thrown inside the try block, "" for none
    log,           \* deploy: the steps taken, in order
    deployResult   \* how deploy settled: "none", "resolved" or the error

actVars == <<apc, ext, registered, providers>>

pickVars == <<ppc, isWindows, timeoutInSeconds, waitForStartPromise, listener, errorListener,
              timer, events, pid, now, maxTime, psTree, pickResult>>

taskVars == <<tpc, workspaceFolders, platform, pyExtension, folderIndex, result, tasksOutcome>>

deployVars == <<dpc, deployFsPath, node, newNodes, onNodeCreated, created, language, runtime,
                confirmDeployment, siteConfig, isZipDeploy, taskSetting, taskName, tasks,
                preDeployTask, taskProcess, endListener, endPromise, otherEnds, pendingError,
                log, deployResult>>

notActVars == <<pickVars, taskVars, deployVars>>
notPickVars == <<actVars, taskVars, deployVars>>
notTaskVars == <<actVars, pickVars, deployVars>>
notDeployVars == <<actVars, pickVars, taskVars>>

vars == <<mode, actVars, pickVars, taskVars, deployVars>>

----------------------------------------------------------------------------
(* extension.ts: activate                                                   *)

\* The ids passed to registerCommand, in source order (extension.ts 91-131).
CommandIds ==
    << "azureFunctions.selectSubscriptions", "azureFunctions.refresh",
       "azureFunctions.pickProcess", "azureFunctions.loadMore",
       "azureFunctions.openInPortal", "azureFunctions.createFunction",
       "azureFunctions.createNewProject", "azureFunctions.initProjectForVSCode",
       "azureFunctions.createFunctionApp", "azureFunctions.startFunctionApp",
       "azureFunctions.stopFunctionApp", "azureFunctions.restartFunctionApp",
       "azureFunctions.deleteFunctionApp", "azureFunctions.deploy",
       "azureFunctions.configureDeploymentSource", "azureFunctions.copyFunctionUrl",
       "azureFunctions.startStreamingLogs", "azureFunctions.stopStreamingLogs",
       "azureFunctions.deleteFunction", "azureFunctions.appSettings.add",
       "azureFunctions.appSettings.download", "azureFunctions.appSettings.upload",
       "azureFunctions.appSettings.edit", "azureFunctions.appSettings.rename",
       "azureFunctions.appSettings.decrypt", "azureFunctions.appSettings.encrypt",
       "azureFunctions.appSettings.delete", "azureFunctions.debugFunctionAppOnAzure",
       "azureFunctions.deleteProxy", "azureFunctions.installOrUpdateFuncCoreTools",
       "azureFunctions.uninstallFuncCoreTools", "azureFunctions.redeploy",
       "azureFunctions.viewDeploymentLogs", "azureFunctions.connectToGitHub",
       "azureFunctions.disconnectRepo", "azureFunctions.swapSlot",
       "azureFunctions.createSlot" >>

\* How often id occurs in the sequence s.
Count(s, id) == Cardinality({i \in 1..Len(s) : s[i] = id})

ExtInit == [outputChannel |-> FALSE, ui |-> FALSE, tree |-> FALSE]

\* extension.ts 62-63: ext.outputChannel = createOutputChannel(...)
AssignOutputChannel ==
    /\ mode = "activating" /\ apc = "start"
    /\ ext' = [ext EXCEPT !.outputChannel = TRUE]
    /\ apc' = "ui"
    /\ UNCHANGED <<mode, registered, providers, notActVars>>

\* extension.ts 64-67: ext.ui = new AzureUserInput(...)
AssignUi ==
    /\ mode = "activating" /\ apc = "ui"
    /\ ext' = [ext EXCEPT !.ui = TRUE]
    /\ apc' = "tree"
    /\ UNCHANGED <<mode, registered, providers, notActVars>>

\* A faulty variant of AssignTree: the tree is created only after the commands.
AssignTreeLate ==
    /\ mode = "activating" /\ apc = "tree"
    /\ apc' = "commands"
    /\ UNCHANGED <<mode, ext, registered, providers, notActVars>>

\* extension.ts 76-78: ext.tree = new AzureTreeDataProvider(...)
AssignTree ==
    /\ mode = "activating" /\ apc = "tree"
    /\ ext' = [ext EXCEPT !.tree = TRUE]
    /\ apc' = "commands"
    /\ UNCHANGED <<mode, registered, providers, notActVars>>

\* extension.ts 91-131: the next registerCommand call of the list.
RegisterCommand ==
    /\ mode = "activating" /\ apc = "commands"
    /\ Len(registered) < Len(CommandIds)
    /\ registered' = Append(registered, CommandIds[Len(registered) + 1])
    /\ UNCHANGED <<mode, apc, ext, providers, notActVars>>

\* extension.ts 132: registerFuncHostTaskEvents(), after the last command.
RegisterFuncHostTaskEvents ==
    /\ mode = "activating" /\ apc = "commands"
    /\ Len(registered) = Len(CommandIds)
    /\ apc' = "provider"
    /\ UNCHANGED <<mode, ext, registered, providers, notActVars>>

\* extension.ts 134: registerTaskProvider(func, new FuncTaskProvider())
RegisterTaskProvider ==
    /\ mode = "activating" /\ apc = "provider"
    /\ providers' = providers + 1
    /\ apc' = "return"
    /\ UNCHANGED <<mode, ext, registered, notActVars>>

\* extension.ts 137: return createApiProvider([])
ActivateReturn ==
    /\ mode = "activating" /\ apc = "return"
    /\ apc' = "returned"
    /\ mode' = "idle"
    /\ UNCHANGED <<ext, registered, providers, notActVars>>

----------------------------------------------------------------------------
(* commands/pickFuncProcess: startFuncTask and the innermost-pid helpers    *)

MaxEvents == 3      \* how many task events and timer firings one startFuncTask sees
PidBase == 9        \* the smallest process id the editor reports
PidSpan == 1        \* process ids are PidBase .. PidBase + PidSpan
MaxTimeout == 1     \* the pickProcessTimeout setting ranges over 0 .. MaxTimeout seconds
MaxDepth == 2       \* the depth of the Windows process trees
MaxSiblings == 1    \* how many further children a process has besides its first child
MaxDescendants == 2 \* the length of the descendant list ps-tree reports

Pids == PidBase .. (PidBase + PidSpan)

Digits == <<"0", "1", "2", "3", "4", "5", "6", "7", "8", "9">>

\* Number.prototype.toString for a non-negative integer: its decimal digits.
RECURSIVE toString(_)
toString(n) ==
    IF n < 10 THEN <<Digits[n + 1]>>
    ELSE toString(n \div 10) \o <<Digits[(n % 10) + 1]>>

DigitValue(c) == CHOOSE d \in 0..9 : Digits[d + 1] = c

\* parseInt / Number of a string of decimal digits.
RECURSIVE parseInt(_)
parseInt(str) ==
    IF Len(str) = 0 THEN 0
    ELSE 10 * parseInt(SubSeq(str, 1, Len(str) - 1)) + DigitValue(str[Len(str)])

\* The tasks whose process events the editor reports while debugging starts.
Tasks == { [name |-> "host start", funcHost |-> TRUE],
           [name |-> "build", funcHost |-> FALSE] }

\* funcCoreTools/funcHostTask.ts: isFuncHostTask
isFuncHostTask(task) == task.funcHost

ExitCodes == {0, 1}

PendingPromise == [state |-> "pending", pid |-> <<>>, error |-> ""]

\* A promise is settled by the first resolve or reject; later calls do nothing.
Resolve(p, value) ==
    IF p.state = "pending" THEN [state |-> "resolved", pid |-> value, error |-> ""] ELSE p
Reject(p, err) ==
    IF p.state = "pending" THEN [state |-> "rejected", pid |-> <<>>, error |-> err] ELSE p

NoReport == [kind |-> "none"]

NoResult == [state |-> "none", pid |-> <<>>, error |-> ""]
Resolved(value) == [state |-> "resolved", pid |-> value, error |-> ""]
Rejected(err) == [state |-> "rejected", pid |-> <<>>, error |-> err]

PickIdle ==
    /\ ppc = "idle"
    /\ isWindows = FALSE
    /\ timeoutInSeconds = 0
    /\ waitForStartPromise = PendingPromise
    /\ listener = FALSE
    /\ errorListener = FALSE
    /\ timer = FALSE
    /\ events = <<>>
    /\ pid = <<>>
    /\ now = 0
    /\ maxTime = 0
    /\ psTree = NoReport
    /\ pickResult = NoResult

\* The editor runs the azureFunctions.pickProcess command.
\* pickFuncProcess 122-142: the checks before startFuncTask.
PickFuncProcess ==
    /\ mode = "idle"
    /\ Count(registered, "azureFunctions.pickProcess") > 0
    /\ mode' = "pick"
    /\ \E coreTools \in BOOLEAN, funcTask \in BOOLEAN, settingIsNumber \in BOOLEAN,
          t \in 0..MaxTimeout :
          /\ timeoutInSeconds' = t
          /\ IF ~coreTools
                THEN ppc' = "done" /\ pickResult' = Rejected("UserCancelledError")
             ELSE IF ~funcTask
                THEN ppc' = "done" /\ pickResult' = Rejected("noFuncTask")
             ELSE IF ~settingIsNumber
                THEN ppc' = "done" /\ pickResult' = Rejected("invalidSettingValue")
             ELSE ppc' = "startFuncTask" /\ pickResult' = NoResult
    /\ UNCHANGED <<isWindows, waitForStartPromise, listener, errorListener, timer, events,
                   pid, now, maxTime, psTree, notPickVars>>

\* startFuncTask 149-167: the promise's executor registers both listeners and
\* the timer, then executeTask is called; all of it runs before any event.
StartFuncTask ==
    /\ mode = "pick" /\ ppc = "startFuncTask"
    /\ waitForStartPromise' = PendingPromise
    /\ listener' = TRUE
    /\ errorListener' = TRUE
    /\ timer' = TRUE
    /\ events' = <<>>
    /\ ppc' = "executeTask"
    /\ UNCHANGED <<isWindows, timeoutInSeconds, pid, now, maxTime, psTree, pickResult,
                   mode, notPickVars>>

InStartFuncTask == mode = "pick" /\ ppc \in {"executeTask", "waitForStart"}

\* A faulty variant of OnDidStartTaskProcess: the listener takes any task's process.
OnDidStartTaskProcessAnyTask(e) ==
    /\ waitForStartPromise' = Resolve(waitForStartPromise, toString(e.processId))
    /\ listener' = FALSE

\* startFuncTask 150-155: the onDidStartTaskProcess listener.
OnDidStartTaskProcess(e) ==
    IF isFuncHostTask(e.task)
        THEN /\ waitForStartPromise' = Resolve(waitForStartPromise, toString(e.processId))
             /\ listener' = FALSE
        ELSE UNCHANGED <<waitForStartPromise, listener>>

\* startFuncTask 157-163: the onDidEndTaskProcess listener.
OnDidEndTaskProcess(e) ==
    IF e.exitCode # 0
        THEN /\ waitForStartPromise' = Reject(waitForStartPromise, "taskFailed")
             /\ errorListener' = FALSE
        ELSE UNCHANGED <<waitForStartPromise, errorListener>>

\* The editor reports that a task's process started.
TaskProcessStart ==
    /\ InStartFuncTask
    /\ Len(events) < MaxEvents
    /\ \E task \in Tasks, p \in Pids :
          LET e == [type |-> "start", task |-> task, processId |-> p, exitCode |-> 0] IN
          /\ events' = Append(events, e)
          /\ IF listener THEN OnDidStartTaskProcess(e)
                         ELSE UNCHANGED <<waitForStartPromise, listener>>
    /\ UNCHANGED <<ppc, isWindows, timeoutInSeconds, errorListener, timer, pid, now, maxTime,
                   psTree, pickResult, mode, notPickVars>>

\* The editor reports that a task's process ended.
TaskProcessEnd ==
    /\ InStartFuncTask
    /\ Len(events) < MaxEvents
    /\ \E task \in Tasks, code \in ExitCodes :
          LET e == [type |-> "end", task |-> task, processId |-> 0, exitCode |-> code] IN
          /\ events' = Append(events, e)
          /\ IF errorListener THEN OnDidEndTaskProcess(e)
                              ELSE UNCHANGED <<waitForStartPromise, errorListener>>
    /\ UNCHANGED <<ppc, isWindows, timeoutInSeconds, listener, timer, pid, now, maxTime,
                   psTree, pickResult, mode, notPickVars>>

\* startFuncTask 165: the setTimeout callback runs, once.
TimerFires ==
    /\ InStartFuncTask
    /\ timer
    /\ Len(events) < MaxEvents
    /\ timer' = FALSE
    /\ events' = Append(events, [type |-> "timer", task |-> CHOOSE t \in Tasks : t.funcHost,
                                 processId |-> 0, exitCode |-> 0])
    /\ waitForStartPromise' = Reject(waitForStartPromise, "timeoutError")
    /\ UNCHANGED <<ppc, isWindows, timeoutInSeconds, listener, errorListener, pid, now,
                   maxTime, psTree, pickResult, mode, notPickVars>>

\* startFuncTask 167: executeTask's promise resolves.
ExecuteFuncTaskReturns ==
    /\ mode = "pick" /\ ppc = "executeTask"
    /\ ppc' = "waitForStart"
    /\ UNCHANGED <<isWindows, timeoutInSeconds, waitForStartPromise, listener, errorListener,
                   timer, events, pid, now, maxTime, psTree, pickResult, mode, notPickVars>>

\* startFuncTask 168 and pickFuncProcess 144: the settled promise is the result.
StartFuncTaskReturns ==
    /\ mode = "pick" /\ ppc = "waitForStart"
    /\ waitForStartPromise.state # "pending"
    /\ IF waitForStartPromise.state = "resolved"
          THEN /\ pid' = waitForStartPromise.pid
               /\ ppc' = "startReturned"
               /\ pickResult' = pickResult
          ELSE /\ pid' = pid
               /\ ppc' = "done"
               /\ pickResult' = Rejected(waitForStartPromise.error)
    /\ UNCHANGED <<isWindows, timeoutInSeconds, waitForStartPromise, listener, errorListener,
                   timer, events, now, maxTime, psTree, mode, notPickVars>>



\* pickFuncProcess 145: constants.isWindows is read and the helper is chosen by
\* platform.
PickInnermostPid ==
    /\ mode = "pick" /\ ppc = "startReturned"
    /\ \E win \in BOOLEAN :
          /\ isWindows' = win
          /\ ppc' = IF win THEN "getInnermostWindowsPid" ELSE "getInnermostUnixPid"
    /\ waitForStartPromise' = PendingPromise
    /\ listener' = FALSE
    /\ errorListener' = FALSE
    /\ timer' = FALSE
    /\ events' = <<>>
    /\ UNCHANGED <<timeoutInSeconds, pid, now, maxTime, psTree, pickResult,
                   mode, notPickVars>>

\* The descendants ps-tree may report for the task's process.
DescendantPids == (PidBase + PidSpan + 1) .. (PidBase + PidSpan + MaxDescendants)

PS == { [PID |-> toString(q)] : q \in DescendantPids }

RECURSIVE SeqsUpTo(_, _)
SeqsUpTo(S, n) ==
    IF n = 0 THEN {<<>>}
    ELSE LET shorter == SeqsUpTo(S, n - 1) IN
         shorter \cup { Append(q, x) : q \in shorter, x \in S }

\* Array.prototype.pop: the last element, or undefined for an empty array.
HasLast(list) == Len(list) > 0
Last(list) == list[Len(list)]

\* A faulty variant of UnixPidOf: the first descendant is taken instead of the last.
UnixPidOfFirst(taskPid, report) ==
    IF report.error THEN Rejected("psTreeError")
    ELSE IF HasLast(report.children) THEN Resolved(report.children[1].PID)
    ELSE Resolved(taskPid)

\* getInnermostUnixPid 176-183: the ps-tree callback.
UnixPidOf(taskPid, report) ==
    IF report.error THEN Rejected("psTreeError")
    ELSE IF HasLast(report.children) THEN Resolved(Last(report.children).PID)
    ELSE Resolved(taskPid)

\* getInnermostUnixPid 174-185: ps-tree is asked for parseInt(pid) and calls back.
getInnermostUnixPid ==
    /\ mode = "pick" /\ ppc = "getInnermostUnixPid"
    /\ \E err \in BOOLEAN, children \in SeqsUpTo(PS, MaxDescendants) :
          LET report == [kind |-> "unix", root |-> parseInt(pid), error |-> err,
                         children |-> children] IN
          /\ psTree' = report
          /\ pickResult' = UnixPidOf(pid, report)
    /\ ppc' = "done"
    /\ UNCHANGED <<isWindows, timeoutInSeconds, waitForStartPromise, listener, errorListener,
                   timer, events, pid, now, maxTime, mode, notPickVars>>

\* Process names, as strings of characters.
Pwsh == <<"p", "w", "s", "h">>
FUNC == <<"F", "U", "N", "C">>
XFunc == <<"x", "f", "u", "n", "c">>
ProcessNames == {Pwsh, FUNC, XFunc}
SiblingNames == {XFunc}

UpperLetters == <<"A", "B", "C", "D", "E", "F", "G", "H", "I", "J", "K", "L", "M",
                  "N", "O", "P", "Q", "R", "S", "T", "U", "V", "W", "X", "Y", "Z">>
LowerLetters == <<"a", "b", "c", "d", "e", "f", "g", "h", "i", "j", "k", "l", "m",
                  "n", "o", "p", "q", "r", "s", "t", "u", "v", "w", "x", "y", "z">>

\* String.prototype.toLowerCase and toUpperCase, letter by letter.
LowerChar(c) ==
    IF \E i \in 1..Len(UpperLetters) : UpperLetters[i] = c
       THEN LowerLetters[CHOOSE i \in 1..Len(UpperLetters) : UpperLetters[i] = c]
       ELSE c
UpperChar(c) ==
    IF \E i \in 1..Len(LowerLetters) : LowerLetters[i] = c
       THEN UpperLetters[CHOOSE i \in 1..Len(LowerLetters) : LowerLetters[i] = c]
       ELSE c
toLowerCase(str) == [i \in 1..Len(str) |-> LowerChar(str[i])]
toUpperCase(str) == [i \in 1..Len(str) |-> UpperChar(str[i])]

\* String.prototype.includes
includes(str, search) ==
    \E i \in 0..(Len(str) - Len(search)) : SubSeq(str, i + 1, i + Len(search)) = search

\* IProcessTreeNode 222-228.  The j-th child of process p has pid 10 * p + j.
RECURSIVE ProcessTrees(_, _)
ProcessTrees(p, depth) ==
    LET leaves(q) == { [pid |-> q, name |-> n, children |-> <<>>] : n \in SiblingNames }
        siblings == { sibs \in SeqsUpTo(UNION { leaves(10 * p + j) : j \in 2..(MaxSiblings + 1) },
                                        MaxSiblings) :
                        \A j \in 1..Len(sibs) : sibs[j].pid = 10 * p + j + 1 }
        childLists == IF depth = 0 THEN {<<>>}
                      ELSE {<<>>} \cup { <<first>> \o sibs :
                                           first \in ProcessTrees(10 * p + 1, depth - 1),
                                           sibs \in siblings }
    IN { [pid |-> p, name |-> n, children |-> c] : n \in ProcessNames, c \in childLists }

\* A faulty variant of Innermost: the last child is followed at each level.
RECURSIVE InnermostLastChild(_)
InnermostLastChild(treeNode) ==
    IF Len(treeNode.children) > 0 THEN InnermostLastChild(treeNode.children[Len(treeNode.children)])
    ELSE treeNode

\* getInnermostWindowsPid 208-210: follow the first child down to a leaf.
RECURSIVE Innermost(_)
Innermost(treeNode) ==
    IF Len(treeNode.children) > 0 THEN Innermost(treeNode.children[1]) ELSE treeNode

\* getInnermostWindowsPid 192-198: the module is fetched and the deadline set.
getInnermostWindowsPid ==
    /\ mode = "pick" /\ ppc = "getInnermostWindowsPid"
    /\ \E windowsProcessTree \in BOOLEAN :
          IF ~windowsProcessTree
             THEN /\ ppc' = "done"
                  /\ pickResult' = Rejected("noWindowsProcessTree")
                  /\ maxTime' = maxTime
             ELSE /\ ppc' = "while"
                  /\ pickResult' = pickResult
                  /\ maxTime' = now + 2 * timeoutInSeconds
    /\ UNCHANGED <<isWindows, timeoutInSeconds, waitForStartPromise, listener, errorListener,
                   timer, events, pid, now, psTree, mode, notPickVars>>

\* getInnermostWindowsPid 199-219: one turn of the polling loop, up to the
\* return, the throw or the delay.
WindowsPoll ==
    /\ mode = "pick" /\ ppc = "while"
    /\ IF now < maxTime
          THEN \E found \in BOOLEAN, tree \in ProcessTrees(parseInt(pid), MaxDepth) :
                  IF ~found
                     THEN /\ psTree' = [kind |-> "windows", found |-> FALSE]
                          /\ ppc' = "done"
                          /\ pickResult' = Rejected("funcTaskStopped")
                  ELSE IF includes(toLowerCase(Innermost(tree).name), <<"f", "u", "n", "c">>)
                     THEN /\ psTree' = [kind |-> "windows", found |-> TRUE, tree |-> tree]
                          /\ ppc' = "done"
                          /\ pickResult' = Resolved(toString(Innermost(tree).pid))
                  ELSE /\ psTree' = NoReport
                       /\ ppc' = "delay"
                       /\ pickResult' = pickResult
          ELSE /\ psTree' = psTree
               /\ ppc' = "done"
               /\ pickResult' = Rejected("timeoutError")
    /\ UNCHANGED <<isWindows, timeoutInSeconds, waitForStartPromise, listener, errorListener,
                   timer, events, pid, now, maxTime, mode, notPickVars>>

\* delay 234-236: 500 ms pass before the next turn.
Delay ==
    /\ mode = "pick" /\ ppc = "delay"
    /\ now' = now + 1
    /\ ppc' = "while"
    /\ UNCHANGED <<isWindows, timeoutInSeconds, waitForStartPromise, listener, errorListener,
                   timer, events, pid, maxTime, psTree, pickResult, mode, notPickVars>>

\* The command's promise has settled and the editor is free again.
PickFinished ==
    /\ mode = "pick" /\ ppc = "done"
    /\ mode' = "idle"
    /\ ppc' = "idle"
    /\ isWindows' = FALSE
    /\ timeoutInSeconds' = 0
    /\ waitForStartPromise' = PendingPromise
    /\ listener' = FALSE
    /\ errorListener' = FALSE
    /\ timer' = FALSE
    /\ events' = <<>>
    /\ pid' = <<>>
    /\ now' = 0
    /\ maxTime' = 0
    /\ psTree' = NoReport
    /\ pickResult' = NoResult
    /\ UNCHANGED notPickVars

----------------------------------------------------------------------------
(* FuncTaskProvider: provideTasks, getHostStartTask, getExtensionInstallTask *)

MaxFolders == 2     \* how many workspace folders are open

PythonPort == 9091
NodePort == 5858
JavaPort == 5005

Platforms == {"win32", "linux"}

\* ProjectLanguage values of the projectLanguage setting; "undefined" when unset.
Languages == {"Python", "JavaScript", "Java", "C#", "undefined"}

\* What provideTasks reads about one workspace folder: isFunctionProject, the
\* projectLanguage setting and the pythonVenv setting.
FolderSettings ==
    { [isFunctionProject |-> TRUE, projectLanguage |-> l, pythonVenv |-> "undefined"] :
        l \in Languages }
    \cup { [isFunctionProject |-> TRUE, projectLanguage |-> "Python", pythonVenv |-> ".env"],
           [isFunctionProject |-> FALSE, projectLanguage |-> "undefined", pythonVenv |-> "undefined"],
           [isFunctionProject |-> FALSE, projectLanguage |-> "JavaScript", pythonVenv |-> "undefined"] }

PyExtensionStates == {"missing", "inactive", "active", "noDebugApi"}

\* cpUtils.joinCommands: the commands joined with the platform's separator.
joinCommands(plat, first, second) ==
    first \o <<IF plat = "win32" THEN " ; " ELSE " && ">> \o second

\* PythonProjectCreator getVenvActivatePath 501-508
getVenvActivatePath(venvName, plat) ==
    IF plat = "win32" THEN <<venvName, "Scripts", "activate">>
    ELSE <<venvName, "bin", "activate">>

\* PythonProjectCreator getVenvActivateCommand 510-518
getVenvActivateCommand(venvName, plat) ==
    IF plat = "win32" THEN getVenvActivatePath(venvName, plat)
    ELSE <<". ">> \o getVenvActivatePath(venvName, plat)

\* PythonProjectCreator convertToVenvCommand 497-499
convertToVenvCommand(venvName, plat, command) ==
    joinCommands(plat, getVenvActivateCommand(venvName, plat), command)

Thrown(err) == [thrown |-> TRUE, error |-> err]
Returned(value) == [thrown |-> FALSE, value |-> value]

\* getPythonCommand 91-105
getPythonCommand(host, port, pyExt) ==
    IF pyExt \in {"inactive", "active"}
       THEN Returned(<<"getRemoteLauncherCommand", host, toString(port)>>)
       ELSE Thrown("todo")

NoOptions == {}

\* A faulty variant of getHostStartTask: the JavaScript case falls through to the default.
getHostStartTaskNoNode(folder, settings, plat, pyExt) ==
    LET lang == settings.projectLanguage
        python == getPythonCommand("127.0.0.1", PythonPort, pyExt)
        command == IF lang = "Python" /\ settings.pythonVenv # "undefined"
                      THEN convertToVenvCommand(settings.pythonVenv, plat, <<"func host start">>)
                      ELSE <<"func host start">>
        options ==
            CASE lang = "Python" ->
                    { [key |-> "languageWorkers__python__arguments", value |-> python.value] }
              [] lang = "Java" ->
                    { [key |-> "languageWorkers__java__arguments",
                       value |-> <<"-agentlib:jdwp=transport=dt_socket,server=y,suspend=n,address=",
                                   toString(JavaPort)>>] }
              [] OTHER -> NoOptions
    IN IF lang = "Python" /\ python.thrown THEN python
       ELSE Returned([type |-> "func", command |-> "hostStartCommand", scope |-> folder,
                      name |-> "hostStartCommand", source |-> "func",
                      execution |-> [kind |-> "shell", command |-> command, options |-> options],
                      problemMatcher |-> "funcWatchProblemMatcher"])

\* getHostStartTask 37-76
getHostStartTask(folder, settings, plat, pyExt) ==
    LET lang == settings.projectLanguage
        python == getPythonCommand("127.0.0.1", PythonPort, pyExt)
        command == IF lang = "Python" /\ settings.pythonVenv # "undefined"
                      THEN convertToVenvCommand(settings.pythonVenv, plat, <<"func host start">>)
                      ELSE <<"func host start">>
        options ==
            CASE lang = "Python" ->
                    { [key |-> "languageWorkers__python__arguments", value |-> python.value] }
              [] lang = "JavaScript" ->
                    { [key |-> "languageWorkers__node__arguments",
                       value |-> <<"--inspect=", toString(NodePort)>>] }
              [] lang = "Java" ->
                    { [key |-> "languageWorkers__java__arguments",
                       value |-> <<"-agentlib:jdwp=transport=dt_socket,server=y,suspend=n,address=",
                                   toString(JavaPort)>>] }
              [] OTHER -> NoOptions
    IN IF lang = "Python" /\ python.thrown THEN python
       ELSE Returned([type |-> "func", command |-> "hostStartCommand", scope |-> folder,
                      name |-> "hostStartCommand", source |-> "func",
                      execution |-> [kind |-> "shell", command |-> command, options |-> options],
                      problemMatcher |-> "funcWatchProblemMatcher"])

\* getExtensionInstallTask 78-89
getExtensionInstallTask(folder) ==
    [type |-> "func", command |-> "extInstallCommand", scope |-> folder,
     name |-> "extInstallCommand", source |-> "func",
     execution |-> [kind |-> "process", process |-> "func", args |-> <<"extensions", "install">>]]

\* The editor asks the registered provider for its tasks.
\* provideTasks 13-15: the result starts empty; without workspace folders the
\* loop is skipped.
provideTasks ==
    /\ mode = "idle"
    /\ providers > 0
    /\ mode' = "tasks"
    /\ \E defined \in BOOLEAN, folders \in SeqsUpTo(FolderSettings, MaxFolders),
          plat \in Platforms, pyExt \in PyExtensionStates :
          /\ defined \/ folders = <<>>
          /\ workspaceFolders' = [defined |-> defined, folders |-> folders]
          /\ platform' = plat
          /\ pyExtension' = pyExt
    /\ tpc' = "for"
    /\ folderIndex' = 1
    /\ result' = <<>>
    /\ tasksOutcome' = "none"
    /\ UNCHANGED notTaskVars

\* provideTasks 16-24: one turn of the loop over the workspace folders.
ProvideTasksFolder ==
    /\ mode = "tasks" /\ tpc = "for"
    /\ folderIndex <= Len(workspaceFolders.folders)
    /\ LET settings == workspaceFolders.folders[folderIndex]
           hostStartTask == getHostStartTask(folderIndex, settings, platform, pyExtension)
       IN IF ~settings.isFunctionProject
             THEN /\ result' = result
                  /\ folderIndex' = folderIndex + 1
                  /\ UNCHANGED <<tpc, tasksOutcome>>
          ELSE IF hostStartTask.thrown
             THEN /\ result' = Append(result, getExtensionInstallTask(folderIndex))
                  /\ tpc' = "done"
                  /\ tasksOutcome' = "rejected"
                  /\ folderIndex' = folderIndex
          ELSE /\ result' = result \o <<getExtensionInstallTask(folderIndex), hostStartTask.value>>
               /\ folderIndex' = folderIndex + 1
               /\ UNCHANGED <<tpc, tasksOutcome>>
    /\ pyExtension' = IF /\ workspaceFolders.folders[folderIndex].isFunctionProject
                         /\ workspaceFolders.folders[folderIndex].projectLanguage = "Python"
                         /\ pyExtension = "inactive"
                      THEN "active" ELSE pyExtension
    /\ UNCHANGED <<workspaceFolders, platform, mode, notTaskVars>>

\* provideTasks 27: return result
ProvideTasksReturn ==
    /\ mode = "tasks" /\ tpc = "for"
    /\ folderIndex > Len(workspaceFolders.folders)
    /\ tpc' = "done"
    /\ tasksOutcome' = "returned"
    /\ UNCHANGED <<workspaceFolders, platform, pyExtension, folderIndex, result, mode,
                   notTaskVars>>

\* The provider's promise has settled and the editor is free again.
TasksFinished ==
    /\ mode = "tasks" /\ tpc = "done"
    /\ mode' = "idle"
    /\ tpc' = "idle"
    /\ workspaceFolders' = [defined |-> FALSE, folders |-> <<>>]
    /\ platform' = "linux"
    /\ pyExtension' = "missing"
    /\ folderIndex' = 1
    /\ result' = <<>>
    /\ tasksOutcome' = "none"
    /\ UNCHANGED notTaskVars

TasksIdle ==
    /\ tpc = "idle"
    /\ workspaceFolders = [defined |-> FALSE, folders |-> <<>>]
    /\ platform = "linux"
    /\ pyExtension = "missing"
    /\ folderIndex = 1
    /\ result = <<>>
    /\ tasksOutcome = "none"

----------------------------------------------------------------------------
(* commands/deploy.ts: deploy and runPreDeployTask                          *)

MaxTasks == 2       \* how many tasks fetchTasks returns
MaxOtherEnds == 1   \* how many other tasks end while the pre-deploy task is awaited

\* The function app nodes of the tree.
Nodes == { [fullId |-> "app1", isLinuxPreview |-> TRUE],
           [fullId |-> "app2", isLinuxPreview |-> FALSE] }

NoNode == [fullId |-> "", isLinuxPreview |-> FALSE]

\* ProjectLanguage and ProjectRuntime values.
ProjectLanguages == {"C#", "JavaScript", "Python", "Java", "C#Script"}
ProjectRuntimes == {"~1", "~2"}

ScmTypes == {"None", "LocalGit", "GitHub"}

NoSiteConfig == [scmType |-> ""]

DeployIdle ==
    /\ dpc = "idle"
    /\ deployFsPath = <<>>
    /\ node = NoNode
    /\ newNodes = {}
    /\ onNodeCreated = FALSE
    /\ created = {}
    /\ language = "" /\ runtime = ""
    /\ confirmDeployment = FALSE
    /\ siteConfig = NoSiteConfig /\ isZipDeploy = FALSE
    /\ taskSetting = <<>> /\ taskName = <<>> /\ tasks = <<>> /\ preDeployTask = 0
    /\ taskProcess = "none" /\ endListener = FALSE /\ endPromise = "pending"
    /\ otherEnds = 0 /\ pendingError = ""
    /\ log = <<>>
    /\ deployResult = "none"

\* deploy settles with an error: the promise is rejected.
Throw(err) ==
    /\ dpc' = "done"
    /\ deployResult' = err

\* The editor runs the azureFunctions.deploy command.
\* deploy 33-56: the deploy path is found, the folder must be open in the
\* workspace, and the onTreeItemCreate listener is registered.
deploy ==
    /\ mode = "idle"
    /\ Count(registered, "azureFunctions.deploy") > 0
    /\ mode' = "deploy"
    /\ deployFsPath' = <<"ws", "sub">>
    /\ \E target \in Nodes \cup {NoNode}, folderIsOpen \in BOOLEAN :
          /\ node' = target
          /\ IF folderIsOpen
                THEN /\ dpc' = "selectNode"
                     /\ deployResult' = deployResult
                     /\ onNodeCreated' = TRUE
                ELSE /\ Throw("folderOpenWarning")
                     /\ onNodeCreated' = onNodeCreated
    /\ UNCHANGED <<newNodes, created, language, runtime, confirmDeployment, siteConfig,
                   isZipDeploy, taskSetting, taskName, tasks, preDeployTask, taskProcess,
                   endListener, endPromise, otherEnds, pendingError, log, notDeployVars>>

\* deploy 53-56: a node is created in the tree; the listener, while it is
\* registered, pushes it to newNodes.  With the node given as the target the
\* try block of lines 57-72 awaits nothing, so no event comes in between.
TreeItemCreate ==
    /\ mode = "deploy"
    /\ \/ dpc = "selectNode" /\ node = NoNode
       \/ dpc = "getProjectLanguage"
    /\ \E newNode \in Nodes \ created :
          /\ created' = created \cup {newNode}
          /\ newNodes' = IF onNodeCreated THEN newNodes \cup {newNode} ELSE newNodes
    /\ UNCHANGED <<dpc, deployFsPath, node, onNodeCreated, language, runtime,
                   confirmDeployment, siteConfig, isZipDeploy, taskSetting, taskName, tasks,
                   preDeployTask, taskProcess, endListener, endPromise, otherEnds,
                   pendingError, log, deployResult, mode, notDeployVars>>

\* deploy 75: the confirmation is stifled for a node that was just created.
ConfirmDeployment(selected, new) ==
    ~(\E newNode \in new : selected # NoNode /\ newNode.fullId = selected.fullId)

\* deploy 57-75: the node is the target, the one picked or the one found by id;
\* the listener is disposed on every way out of the try block.
SelectNode ==
    /\ mode = "deploy" /\ dpc = "selectNode"
    /\ onNodeCreated' = FALSE
    /\ \E picked \in Nodes \cup {NoNode} :
          IF node # NoNode
             THEN /\ node' = node
                  /\ confirmDeployment' = ConfirmDeployment(node, newNodes)
                  /\ dpc' = "getProjectLanguage"
                  /\ log' = Append(log, "nodeSelected")
                  /\ deployResult' = deployResult
          ELSE IF picked = NoNode
             THEN /\ \E err \in {"UserCancelledError", "noMatchingFunctionApp"} : Throw(err)
                  /\ UNCHANGED <<node, confirmDeployment, log>>
          ELSE /\ node' = picked
               /\ confirmDeployment' = ConfirmDeployment(picked, newNodes)
               /\ dpc' = "getProjectLanguage"
               /\ log' = Append(log, "nodeSelected")
               /\ deployResult' = deployResult
    /\ UNCHANGED <<deployFsPath, newNodes, created, language, runtime, siteConfig,
                   isZipDeploy, taskSetting, taskName, tasks, preDeployTask, taskProcess,
                   endListener, endPromise, otherEnds, pendingError, mode, notDeployVars>>

\* A faulty variant of PythonNotSupported: the app is not looked at.
PythonNotSupportedNever(lang, app) == FALSE

\* deploy 83: a Python project cannot go to an app that is not a Linux preview.
PythonNotSupported(lang, app) == lang = "Python" /\ ~app.isLinuxPreview

\* deploy 77-85: language and runtime are read; a Python project needs a
\* Linux app.
GetProjectLanguage ==
    /\ mode = "deploy" /\ dpc = "getProjectLanguage"
    /\ \E l \in ProjectLanguages, r \in ProjectRuntimes :
          /\ language' = l
          /\ runtime' = r
          /\ IF PythonNotSupported(l, node)
                THEN Throw("pythonNotAvailableOnWindows")
                ELSE dpc' = "verifyWebContentSettings" /\ deployResult' = deployResult
    /\ newNodes' = {}
    /\ created' = {}
    /\ UNCHANGED <<deployFsPath, node, onNodeCreated, confirmDeployment, siteConfig,
                   isZipDeploy, taskSetting, taskName, tasks, preDeployTask, taskProcess,
                   endListener, endPromise, otherEnds, pendingError, log, mode, notDeployVars>>

\* verifyWebContentSettings 366-389, and deploy 86-89
verifyWebContentSettings ==
    /\ mode = "deploy" /\ dpc = "verifyWebContentSettings"
    /\ \E hasWebContentSettings \in BOOLEAN, answer \in {"yes", "cancel"} :
          IF node.isLinuxPreview /\ hasWebContentSettings
             THEN IF answer = "cancel"
                     THEN Throw("UserCancelledError") /\ log' = log
                     ELSE /\ log' = log \o <<"updateApplicationSettings", "verifyWebContentSettings">>
                          /\ dpc' = IF language = "Java" THEN "getJavaFolderPath"
                                    ELSE "verifyRuntimeIsCompatible"
                          /\ deployResult' = deployResult
             ELSE /\ answer = "yes"
                  /\ log' = Append(log, "verifyWebContentSettings")
                  /\ dpc' = IF language = "Java" THEN "getJavaFolderPath"
                            ELSE "verifyRuntimeIsCompatible"
                  /\ deployResult' = deployResult
    /\ UNCHANGED <<deployFsPath, node, newNodes, onNodeCreated, created, language, runtime,
                   confirmDeployment, siteConfig, isZipDeploy, taskSetting, taskName, tasks,
                   preDeployTask, taskProcess, endListener, endPromise, otherEnds,
                   pendingError, mode, notDeployVars>>

\* getJavaFolderPath 226-246
getJavaFolderPath ==
    /\ mode = "deploy" /\ dpc = "getJavaFolderPath"
    /\ \E packaged \in BOOLEAN :
          IF packaged
             THEN /\ deployFsPath' = deployFsPath \o <<"target", "azure-functions", "app">>
                  /\ dpc' = "verifyRuntimeIsCompatible"
                  /\ deployResult' = deployResult
             ELSE /\ Throw("UserCancelledError")
                  /\ deployFsPath' = deployFsPath
    /\ UNCHANGED <<node, newNodes, onNodeCreated, created, language, runtime,
                   confirmDeployment, siteConfig, isZipDeploy, taskSetting, taskName, tasks,
                   preDeployTask, taskProcess, endListener, endPromise, otherEnds,
                   pendingError, log, mode, notDeployVars>>

\* ProjectSettings convertStringToRuntime: undefined for a version it does not know.
AzureRuntimes == ProjectRuntimes \cup {"undefined"}

\* verifyRuntimeIsCompatible 248-275
verifyRuntimeIsCompatible ==
    /\ mode = "deploy" /\ dpc = "verifyRuntimeIsCompatible"
    /\ \E properties \in BOOLEAN, azureRuntime \in AzureRuntimes,
          answer \in {"updateRemoteRuntime", "learnMore", "cancel"} :
          IF ~properties
             THEN /\ azureRuntime = "undefined" /\ answer = "cancel"
                  /\ Throw("ArgumentError") /\ log' = log
          ELSE IF azureRuntime # "undefined" /\ azureRuntime # runtime
             THEN IF answer = "updateRemoteRuntime"
                     THEN /\ log' = log \o <<"updateApplicationSettings",
                                             "verifyRuntimeIsCompatible">>
                          /\ dpc' = "getSiteConfig"
                          /\ deployResult' = deployResult
                     ELSE Throw("UserCancelledError") /\ log' = log
          ELSE /\ answer = "cancel"
               /\ log' = Append(log, "verifyRuntimeIsCompatible")
               /\ dpc' = "getSiteConfig"
               /\ deployResult' = deployResult
    /\ UNCHANGED <<deployFsPath, node, newNodes, onNodeCreated, created, language, runtime,
                   confirmDeployment, siteConfig, isZipDeploy, taskSetting, taskName, tasks,
                   preDeployTask, taskProcess, endListener, endPromise, otherEnds,
                   pendingError, mode, notDeployVars>>

\* deploy 94, second operand: the SiteConfigResource object is compared with the
\* ScmType.GitHub string by !==, and an object is never identical to a string.
SiteConfigIsNot(config, scmType) == TRUE

\* deploy 94
IsZipDeploy(config) ==
    config.scmType # "LocalGit" /\ SiteConfigIsNot(config, "GitHub")

\* deploy 93-97: the site configuration decides between zip deploy and the
\* rest; the confirmation is opened when it is wanted.
GetSiteConfig ==
    /\ mode = "deploy" /\ dpc = "getSiteConfig"
    /\ \E scmType \in ScmTypes :
          LET config == [scmType |-> scmType] IN
          /\ siteConfig' = config
          /\ isZipDeploy' = IsZipDeploy(config)
          /\ IF confirmDeployment /\ IsZipDeploy(config)
                THEN dpc' = "showWarningMessage" /\ log' = Append(log, "confirmShown")
                ELSE dpc' = "runPreDeployTask" /\ log' = log
    /\ UNCHANGED <<deployFsPath, node, newNodes, onNodeCreated, created, language, runtime,
                   confirmDeployment, taskSetting, taskName, tasks, preDeployTask,
                   taskProcess, endListener, endPromise, otherEnds, pendingError,
                   deployResult, mode, notDeployVars>>

\* deploy 98-101: the user accepts the confirmation or cancels it.
ConfirmAnswered ==
    /\ mode = "deploy" /\ dpc = "showWarningMessage"
    /\ \E accepted \in BOOLEAN :
          IF accepted
             THEN /\ dpc' = "runPreDeployTask"
                  /\ log' = Append(log, "confirmAccepted")
                  /\ deployResult' = deployResult
             ELSE Throw("UserCancelledError") /\ log' = log
    /\ UNCHANGED <<deployFsPath, node, newNodes, onNodeCreated, created, language, runtime,
                   confirmDeployment, siteConfig, isZipDeploy, taskSetting, taskName, tasks,
                   preDeployTask, taskProcess, endListener, endPromise, otherEnds,
                   pendingError, mode, notDeployVars>>


\* constants.ts: the default pre-deploy task names, as strings of characters.
publishTaskId == <<"p", "u", "b", "l", "i", "s", "h">>
extInstallTaskName == <<"i", "n", "s", "t", "a", "l", "l">>
funcPackId == <<"f", "u", "n", "c", "P", "a", "c", "k">>

\* The preDeployTask setting: undefined (the empty string here) or a task name.
TaskSettings == {<<>>, <<"B", "u", "i", "l", "d">>}

\* utils/fs.ts: isPathEqual and isSubpath, on paths as sequences of segments.
isPathEqual(fsPath1, fsPath2) == fsPath1 = fsPath2
isSubpath(expectedParent, expectedChild) ==
    /\ Len(expectedChild) > Len(expectedParent)
    /\ SubSeq(expectedChild, 1, Len(expectedParent)) = expectedParent

FolderScope(fsPath) == [kind |-> "folder", fsPath |-> fsPath]

\* The tasks fetchTasks may return while name is looked up: the name in the
\* other letter case scoped to the workspace folder, the name scoped to the
\* deploy folder below it, to another folder, to nothing or to
\* TaskScope.Global, and another name.
FetchedTasks(name) ==
    { [name |-> toUpperCase(name), scope |-> FolderScope(<<"ws">>)],
      [name |-> name, scope |-> FolderScope(<<"ws", "sub">>)],
      [name |-> name, scope |-> FolderScope(<<"other">>)],
      [name |-> name, scope |-> [kind |-> "undefined", fsPath |-> <<>>]],
      [name |-> name, scope |-> [kind |-> "global", fsPath |-> <<>>]],
      [name |-> <<"c", "l", "e", "a", "n">>, scope |-> FolderScope(<<"ws">>)] }

\* A faulty variant of PreDeployTaskName: the runtime is not looked at.
PreDeployTaskNameAnyRuntime(setting, lang, rt) ==
    IF setting # <<>> THEN setting
    ELSE CASE lang = "C#" -> publishTaskId
           [] lang = "JavaScript" -> extInstallTaskName
           [] lang = "Python" -> funcPackId
           [] OTHER -> <<>>

\* What fetchTasks returns: up to n of the tasks of S, each of them once.
TaskLists(S, n) ==
    { q \in SeqsUpTo(S, n) : \A i, j \in 1..Len(q) : i # j => q[i] # q[j] }

\* runPreDeployTask 290-309: the task name, <<>> when no task is needed.
PreDeployTaskName(setting, lang, rt) ==
    IF setting # <<>> THEN setting
    ELSE CASE lang = "C#" -> publishTaskId
           [] lang = "JavaScript" -> IF rt = "~1" THEN <<>> ELSE extInstallTaskName
           [] lang = "Python" -> funcPackId
           [] OTHER -> <<>>

\* A faulty variant of IsPreDeployTask: the scope is not looked at.
IsPreDeployTaskAnyScope(task, name, fsPath) ==
    toLowerCase(task.name) = toLowerCase(name)

\* runPreDeployTask 315-317: whether a fetched task is the pre-deploy task.
IsPreDeployTask(task, name, fsPath) ==
    /\ toLowerCase(task.name) = toLowerCase(name)
    /\ task.scope.kind # "undefined"
    /\ task.scope.kind = "folder"
    /\ isPathEqual(task.scope.fsPath, fsPath) \/ isSubpath(task.scope.fsPath, fsPath)

\* runPreDeployTask 313-322: the index of the first such task, 0 for none.
FindPreDeployTask(fetched, name, fsPath) ==
    IF \E i \in 1..Len(fetched) : IsPreDeployTask(fetched[i], name, fsPath)
       THEN CHOOSE i \in 1..Len(fetched) :
               /\ IsPreDeployTask(fetched[i], name, fsPath)
               /\ \A j \in 1..(i - 1) : ~IsPreDeployTask(fetched[j], name, fsPath)
       ELSE 0

\* A faulty variant of isTaskNameDefinedInSettings: a missing task only warns.
isTaskNameDefinedInSettingsNever(setting) == FALSE

\* runPreDeployTask 290
isTaskNameDefinedInSettings(setting) == setting # <<>>

\* runPreDeployTask 277-326 and 339-363: up to the call of executeTask, the
\* throw or the return.
runPreDeployTask ==
    /\ mode = "deploy" /\ dpc = "runPreDeployTask"
    /\ \E setting \in TaskSettings :
          LET name == PreDeployTaskName(setting, language, runtime) IN
          /\ taskSetting' = setting
          /\ IF ~isZipDeploy
                THEN /\ log' = IF setting # <<>>
                                  THEN log \o <<"runPreDeployTask", "ignoringPreDeployTask">>
                                  ELSE Append(log, "runPreDeployTask")
                     /\ dpc' = "runWithTemporaryDescription"
                     /\ UNCHANGED <<taskName, tasks, preDeployTask, taskProcess, deployResult>>
             ELSE IF name = <<>>
                THEN /\ dpc' = "runWithTemporaryDescription"
                     /\ log' = Append(log, "runPreDeployTask")
                     /\ UNCHANGED <<taskName, tasks, preDeployTask, taskProcess, deployResult>>
             ELSE \E fetched \in TaskLists(FetchedTasks(name), MaxTasks) :
                     LET found == FindPreDeployTask(fetched, name, deployFsPath) IN
                     /\ taskName' = name
                     /\ tasks' = fetched
                     /\ preDeployTask' = found
                     /\ IF found # 0
                           THEN /\ log' = log \o <<"runPreDeployTask", "fetchTasks",
                                                    "executeTask">>
                                /\ taskProcess' = "running"
                                /\ dpc' = "executeTask"
                                /\ deployResult' = deployResult
                        ELSE IF isTaskNameDefinedInSettings(setting)
                           THEN /\ Throw("noPreDeployTaskError")
                                /\ log' = log \o <<"runPreDeployTask", "fetchTasks">>
                                /\ UNCHANGED taskProcess
                        ELSE /\ log' = log \o <<"runPreDeployTask", "fetchTasks",
                                                 "noPreDeployTaskWarning">>
                             /\ dpc' = "runWithTemporaryDescription"
                             /\ UNCHANGED <<taskProcess, deployResult>>
    /\ UNCHANGED <<deployFsPath, node, newNodes, onNodeCreated, created, language, runtime,
                   confirmDeployment, siteConfig, isZipDeploy, endListener, endPromise,
                   otherEnds, pendingError, mode, notDeployVars>>

\* runPreDeployTask 326-328: executeTask's promise resolves, and only then is
\* the onDidEndTaskProcess listener registered.
ExecuteTaskReturns ==
    /\ mode = "deploy" /\ dpc = "executeTask"
    /\ dpc' = "onDidEndTaskProcess"
    /\ endListener' = TRUE
    /\ tasks' = <<>>
    /\ UNCHANGED <<deployFsPath, node, newNodes, onNodeCreated, created, language, runtime,
                   confirmDeployment, siteConfig, isZipDeploy, taskSetting, taskName,
                   preDeployTask, taskProcess, endPromise, otherEnds, pendingError, log,
                   deployResult, mode, notDeployVars>>

\* A faulty variant of PreDeployListener: the event's task is not compared.
PreDeployListenerAnyTask(e) ==
    /\ endListener' = FALSE
    /\ endPromise' = IF e.exitCode = 0 THEN "resolved" ELSE "rejected"

\* A faulty variant of PreDeployListener: the exit code is not looked at.
PreDeployListenerAnyCode(e) ==
    IF e.task = preDeployTask
       THEN /\ endListener' = FALSE
            /\ endPromise' = "resolved"
       ELSE UNCHANGED <<endListener, endPromise>>

\* runPreDeployTask 328-337: the onDidEndTaskProcess listener.
PreDeployListener(e) ==
    IF e.task = preDeployTask
       THEN /\ endListener' = FALSE
            /\ endPromise' = IF e.exitCode = 0 THEN "resolved" ELSE "rejected"
       ELSE UNCHANGED <<endListener, endPromise>>

\* The editor reports that the pre-deploy task's process ended.
PreDeployTaskProcessEnd ==
    /\ mode = "deploy" /\ taskProcess = "running"
    /\ taskProcess' = "ended"
    /\ \E code \in ExitCodes :
          /\ log' = Append(log, IF code = 0 THEN "preDeployTaskEnded0"
                                            ELSE "preDeployTaskEndedNonZero")
          /\ IF endListener
                THEN PreDeployListener([task |-> preDeployTask, exitCode |-> code])
                ELSE UNCHANGED <<endListener, endPromise>>
    /\ UNCHANGED <<dpc, deployFsPath, node, newNodes, onNodeCreated, created, language,
                   runtime, confirmDeployment, siteConfig, isZipDeploy, taskSetting,
                   taskName, tasks, preDeployTask, otherEnds, pendingError, deployResult,
                   mode, notDeployVars>>

\* The editor reports that the process of some other task ended.  Before the
\* listener is registered such an event reaches no code of deploy, so it is
\* followed only from the registration on.
OtherTaskProcessEnd ==
    /\ mode = "deploy" /\ dpc = "onDidEndTaskProcess"
    /\ otherEnds < MaxOtherEnds
    /\ otherEnds' = otherEnds + 1
    /\ \E code \in ExitCodes :
          IF endListener
             THEN PreDeployListener([task |-> 0, exitCode |-> code])
             ELSE UNCHANGED <<endListener, endPromise>>
    /\ UNCHANGED <<dpc, deployFsPath, node, newNodes, onNodeCreated, created, language,
                   runtime, confirmDeployment, siteConfig, isZipDeploy, taskSetting,
                   taskName, tasks, preDeployTask, taskProcess, pendingError, log,
                   deployResult, mode, notDeployVars>>

\* runPreDeployTask 327 and deploy 103: the promise has settled and the await
\* returns or throws.
PreDeployTaskSettled ==
    /\ mode = "deploy" /\ dpc = "onDidEndTaskProcess"
    /\ endPromise # "pending"
    /\ IF endPromise = "resolved"
          THEN dpc' = "runWithTemporaryDescription" /\ deployResult' = deployResult
          ELSE Throw("taskFailed")
    /\ UNCHANGED <<deployFsPath, node, newNodes, onNodeCreated, created, language, runtime,
                   confirmDeployment, siteConfig, isZipDeploy, taskSetting, taskName, tasks,
                   preDeployTask, taskProcess, endListener, endPromise, otherEnds,
                   pendingError, log, mode, notDeployVars>>

\* deploy 105-116: LocalGit deploys the workspace folder; a Java app is
\* stopped first.
runWithTemporaryDescription ==
    /\ mode = "deploy" /\ dpc = "runWithTemporaryDescription"
    /\ deployFsPath' = IF siteConfig.scmType = "LocalGit" THEN <<"ws">> ELSE deployFsPath
    /\ dpc' = IF language = "Java" THEN "client.stop" ELSE "appservice.deploy"
    /\ tasks' = <<>>
    /\ log' = Append(log, "runWithTemporaryDescription")
    /\ UNCHANGED <<node, newNodes, onNodeCreated, created, language, runtime,
                   confirmDeployment, siteConfig, isZipDeploy, taskSetting, taskName,
                   preDeployTask, taskProcess, endListener, endPromise, otherEnds,
                   pendingError, deployResult, mode, notDeployVars>>

\* deploy 116-119: client.stop() for a Java project; an error goes to finally.
ClientStop ==
    /\ mode = "deploy" /\ dpc = "client.stop"
    /\ log' = Append(log, "client.stop")
    /\ \E ok \in BOOLEAN :
          IF ok THEN dpc' = "appservice.deploy" /\ pendingError' = pendingError
                ELSE dpc' = "client.start" /\ pendingError' = "stopError"
    /\ UNCHANGED <<deployFsPath, node, newNodes, onNodeCreated, created, language, runtime,
                   confirmDeployment, siteConfig, isZipDeploy, taskSetting, taskName, tasks,
                   preDeployTask, taskProcess, endListener, endPromise, otherEnds,
                   deployResult, mode, notDeployVars>>

\* A faulty variant of AppserviceDeploy: an error leaves deploy at once, past
\* the finally block.
AppserviceDeployNoFinally ==
    /\ mode = "deploy" /\ dpc = "appservice.deploy"
    /\ log' = Append(log, "appservice.deploy")
    /\ \E ok \in BOOLEAN :
          IF ok
             THEN /\ dpc' = IF language = "Java" THEN "client.start" ELSE "deployComplete"
                  /\ deployResult' = deployResult
             ELSE Throw("deployError")
    /\ UNCHANGED <<deployFsPath, node, newNodes, onNodeCreated, created, language, runtime,
                   confirmDeployment, siteConfig, isZipDeploy, taskSetting, taskName, tasks,
                   preDeployTask, taskProcess, endListener, endPromise, otherEnds,
                   pendingError, mode, notDeployVars>>

\* deploy 120-121: appservice.deploy; an error goes to finally.
AppserviceDeploy ==
    /\ mode = "deploy" /\ dpc = "appservice.deploy"
    /\ log' = Append(log, "appservice.deploy")
    /\ \E ok \in BOOLEAN :
          IF ok
             THEN /\ dpc' = IF language = "Java" THEN "client.start" ELSE "deployComplete"
                  /\ UNCHANGED <<pendingError, deployResult>>
          ELSE IF language = "Java"
             THEN /\ dpc' = "client.start"
                  /\ pendingError' = "deployError"
                  /\ deployResult' = deployResult
          ELSE /\ Throw("deployError")
               /\ pendingError' = pendingError
    /\ UNCHANGED <<deployFsPath, node, newNodes, onNodeCreated, created, language, runtime,
                   confirmDeployment, siteConfig, isZipDeploy, taskSetting, taskName, tasks,
                   preDeployTask, taskProcess, endListener, endPromise, otherEnds, mode,
                   notDeployVars>>

\* deploy 121-126: finally, client.start() for a Java project; then the error
\* of the try block, if any, is thrown on.
ClientStart ==
    /\ mode = "deploy" /\ dpc = "client.start"
    /\ log' = Append(log, "client.start")
    /\ \E ok \in BOOLEAN :
          IF ~ok THEN Throw("startError")
          ELSE IF pendingError # "" THEN Throw(pendingError)
          ELSE dpc' = "deployComplete" /\ deployResult' = deployResult
    /\ UNCHANGED <<deployFsPath, node, newNodes, onNodeCreated, created, language, runtime,
                   confirmDeployment, siteConfig, isZipDeploy, taskSetting, taskName, tasks,
                   preDeployTask, taskProcess, endListener, endPromise, otherEnds,
                   pendingError, mode, notDeployVars>>

\* deploy 130-142: the deployment-complete line and message.
DeployComplete ==
    /\ mode = "deploy" /\ dpc = "deployComplete"
    /\ log' = Append(log, "deployComplete")
    /\ dpc' = "listHttpTriggerUrls"
    /\ UNCHANGED <<deployFsPath, node, newNodes, onNodeCreated, created, language, runtime,
                   confirmDeployment, siteConfig, isZipDeploy, taskSetting, taskName, tasks,
                   preDeployTask, taskProcess, endListener, endPromise, otherEnds,
                   pendingError, deployResult, mode, notDeployVars>>

\* listHttpTriggerUrls 147-170, and deploy 144-145
listHttpTriggerUrls ==
    /\ mode = "deploy" /\ dpc = "listHttpTriggerUrls"
    /\ log' = Append(log, "listHttpTriggerUrls")
    /\ dpc' = "done"
    /\ \E ok \in BOOLEAN : deployResult' = IF ok THEN "resolved" ELSE "failedToList"
    /\ UNCHANGED <<deployFsPath, node, newNodes, onNodeCreated, created, language, runtime,
                   confirmDeployment, siteConfig, isZipDeploy, taskSetting, taskName, tasks,
                   preDeployTask, taskProcess, endListener, endPromise, otherEnds,
                   pendingError, mode, notDeployVars>>

\* The command's promise has settled and the editor is free again.
DeployFinished ==
    /\ mode = "deploy" /\ dpc = "done"
    /\ mode' = "idle"
    /\ dpc' = "idle"
    /\ deployFsPath' = <<>>
    /\ node' = NoNode
    /\ newNodes' = {}
    /\ onNodeCreated' = FALSE
    /\ created' = {}
    /\ language' = "" /\ runtime' = ""
    /\ confirmDeployment' = FALSE
    /\ siteConfig' = NoSiteConfig /\ isZipDeploy' = FALSE
    /\ taskSetting' = <<>> /\ taskName' = <<>> /\ tasks' = <<>> /\ preDeployTask' = 0
    /\ taskProcess' = "none" /\ endListener' = FALSE /\ endPromise' = "pending"
    /\ otherEnds' = 0 /\ pendingError' = ""
    /\ log' = <<>>
    /\ deployResult' = "none"
    /\ UNCHANGED notDeployVars

----------------------------------------------------------------------------

Init ==
    /\ mode = "activating"
    /\ apc = "start"
    /\ ext = ExtInit
    /\ registered = <<>>
    /\ providers = 0
    /\ PickIdle
    /\ TasksIdle
    /\ DeployIdle

Next ==
    \/ AssignOutputChannel
    \/ AssignUi
    \/ AssignTree
    \/ RegisterCommand
    \/ RegisterFuncHostTaskEvents
    \/ RegisterTaskProvider
    \/ ActivateReturn
    \/ PickFuncProcess
    \/ StartFuncTask
    \/ TaskProcessStart
    \/ TaskProcessEnd
    \/ TimerFires
    \/ ExecuteFuncTaskReturns
    \/ StartFuncTaskReturns
    \/ PickInnermostPid
    \/ getInnermostUnixPid
    \/ getInnermostWindowsPid
    \/ WindowsPoll
    \/ Delay
    \/ PickFinished
    \/ provideTasks
    \/ ProvideTasksFolder
    \/ ProvideTasksReturn
    \/ TasksFinished
    \/ deploy
    \/ TreeItemCreate
    \/ SelectNode
    \/ GetProjectLanguage
    \/ verifyWebContentSettings
    \/ getJavaFolderPath
    \/ verifyRuntimeIsCompatible
    \/ GetSiteConfig
    \/ ConfirmAnswered
    \/ runPreDeployTask
    \/ ExecuteTaskReturns
    \/ PreDeployTaskProcessEnd
    \/ OtherTaskProcessEnd
    \/ PreDeployTaskSettled
    \/ runWithTemporaryDescription
    \/ ClientStop
    \/ AppserviceDeploy
    \/ ClientStart
    \/ DeployComplete
    \/ listHttpTriggerUrls
    \/ DeployFinished

Spec == Init /\ [][Next]_vars

\* What the editor reports about task processes; nothing obliges it to.
TaskProcessEvents ==
    \/ PreDeployTaskProcessEnd
    \/ OtherTaskProcessEnd
    \/ TaskProcessStart
    \/ TaskProcessEnd

\* The event loop runs every continuation that is ready and fires every timer
\* that is due; commands are invoked and dialogs answered sooner or later.
FairSpec == Spec /\ WF_vars(Next /\ ~TaskProcessEvents)

----------------------------------------------------------------------------
(* Properties                                                               *)

Range(f) == { f[i] : i \in DOMAIN f }

\* The task events and timer firing that settle startFuncTask's promise.
Decisive(e) ==
    \/ e.type = "start" /\ e.task.funcHost
    \/ e.type = "end" /\ e.exitCode # 0
    \/ e.type = "timer"

\* What the first decisive event of a history makes of the promise.
RaceOutcome(es) ==
    IF \A i \in 1..Len(es) : ~Decisive(es[i]) THEN PendingPromise
    ELSE LET first == CHOOSE i \in 1..Len(es) :
                         Decisive(es[i]) /\ \A j \in 1..(i - 1) : ~Decisive(es[j])
             e == es[first]
         IN CASE e.type = "start" -> Resolved(toString(e.processId))
              [] e.type = "end" -> Rejected("taskFailed")
              [] e.type = "timer" -> Rejected("timeoutError")

\* C2: startFuncTask's promise is decided by whichever comes first of a
\* process-start event of the func host task (resolve with its process id), a
\* task ending with a non-zero exit code (reject) and the timer (reject with the
\* timeout error); later events and the later timer do not change it, and
\* startFuncTask settles the way the promise did.
C2_StartFuncTaskRace ==
    /\ (InStartFuncTask \/ (mode = "pick" /\ ppc = "startReturned"))
          => waitForStartPromise = RaceOutcome(events)
    /\ (mode = "pick" /\ ppc = "startReturned")
          => RaceOutcome(events) = Resolved(pid)
    /\ (mode = "pick" /\ ppc = "done" /\ waitForStartPromise.state = "rejected")
          => pickResult = RaceOutcome(events)

\* C2 witness: a func host start event came first, the timer fired later, and
\* startFuncTask returned the start event's process id.
C2_Witness ==
    /\ mode = "pick" /\ ppc = "startReturned"
    /\ Len(events) >= 2
    /\ events[1].type = "start" /\ events[1].task.funcHost
    /\ \E i \in 2..Len(events) : events[i].type = "timer"
    /\ pid = toString(events[1].processId)

\* The nodes reached from a node by following the first child at each level.
RECURSIVE FirstChildChain(_)
FirstChildChain(treeNode) ==
    IF Len(treeNode.children) = 0 THEN {treeNode}
    ELSE {treeNode} \cup FirstChildChain(treeNode.children[1])

FuncNames == {FUNC, XFunc}

\* C3: on Windows the pid returned is that of the leaf reached from the tree
\* rooted at the task's pid by following first children, and that leaf's name
\* contains "func" in some letter case.
C3_WindowsInnermostIsFuncLeaf ==
    (mode = "pick" /\ ppc = "done" /\ isWindows /\ pickResult.state = "resolved")
        => /\ psTree.kind = "windows" /\ psTree.found
           /\ psTree.tree.pid = parseInt(pid)
           /\ \E n \in FirstChildChain(psTree.tree) :
                 /\ n.children = <<>>
                 /\ n.name \in FuncNames
                 /\ pickResult.pid = toString(n.pid)

\* C3 witness: a pid was returned from a tree whose root has a first child with
\* a child of its own and a second child.
C3_Witness ==
    /\ mode = "pick" /\ ppc = "done" /\ isWindows /\ pickResult.state = "resolved"
    /\ Len(psTree.tree.children) > 1
    /\ Len(psTree.tree.children[1].children) > 0

\* C4: on Unix the result is the PID of the last descendant ps-tree reports for
\* the task's pid, the task's own pid when it reports none, and a rejection
\* with ps-tree's error when it reports one.
C4_UnixInnermost ==
    (mode = "pick" /\ ppc = "done" /\ psTree.kind = "unix")
        => /\ psTree.root = parseInt(pid)
           /\ psTree.error => pickResult = Rejected("psTreeError")
           /\ (~psTree.error /\ psTree.children = <<>>) => pickResult = Resolved(pid)
           /\ (~psTree.error /\ psTree.children # <<>>)
                 => pickResult = Resolved(psTree.children[Len(psTree.children)].PID)

\* C4 witness: ps-tree reported two different descendants and no error.
C4_Witness ==
    /\ mode = "pick" /\ ppc = "done" /\ psTree.kind = "unix"
    /\ ~psTree.error
    /\ Len(psTree.children) = 2
    /\ psTree.children[1] # psTree.children[2]
    /\ pickResult.state = "resolved"

\* C8: when activate has returned, every command id of the registration list
\* and the func task provider are registered exactly once, and no command is
\* registered before ext.tree, ext.ui and ext.outputChannel are assigned.
C8_ActivateRegistersOnce ==
    /\ (mode = "idle" /\ apc = "returned")
          => /\ \A id \in Range(CommandIds) : Count(registered, id) = 1
             /\ Range(registered) = Range(CommandIds)
             /\ providers = 1
    /\ Len(registered) > 0 => (ext.tree /\ ext.ui /\ ext.outputChannel)

\* C8 witness: activate has returned with the whole list registered.
C8_Witness ==
    /\ apc = "returned"
    /\ Len(registered) = Len(CommandIds)
    /\ providers = 1

\* The indices of the returned tasks with a given name and folder scope.
TasksOf(name, folder) ==
    { k \in 1..Len(result) : result[k].name = name /\ result[k].scope = folder }

\* C6: provideTasks returns exactly one extension-install task and one
\* host-start task for every workspace folder that is a function project, no
\* task for any other folder, and an empty list when no folder is open.
C6_ProvideTasksPerFolder ==
    (mode = "tasks" /\ tpc = "done")
        => /\ tasksOutcome = "returned"
           /\ \A i \in 1..Len(workspaceFolders.folders) :
                 IF workspaceFolders.folders[i].isFunctionProject
                    THEN /\ Cardinality(TasksOf("extInstallCommand", i)) = 1
                         /\ Cardinality(TasksOf("hostStartCommand", i)) = 1
                    ELSE /\ TasksOf("extInstallCommand", i) = {}
                         /\ TasksOf("hostStartCommand", i) = {}
           /\ Len(result) = 2 * Cardinality({ i \in 1..Len(workspaceFolders.folders) :
                                                workspaceFolders.folders[i].isFunctionProject })
           /\ ~workspaceFolders.defined => result = <<>>

\* C7: a host-start task is decided by its folder's projectLanguage setting:
\* Python sets languageWorkers__python__arguments to the launcher command for
\* port 9091 and, with pythonVenv set, puts the venv activation in front of the
\* command; JavaScript sets languageWorkers__node__arguments to --inspect=5858;
\* Java sets languageWorkers__java__arguments with jdwp address 5005; any other
\* or missing language gives the plain 'func host start' without options.
C7_HostStartTaskByLanguage ==
    \A k \in 1..Len(result) :
        result[k].name = "hostStartCommand" =>
            LET settings == workspaceFolders.folders[result[k].scope]
                lang == settings.projectLanguage
                command == result[k].execution.command
                options == result[k].execution.options
                plain == <<"func host start">>
            IN /\ result[k].execution.kind = "shell"
               /\ lang = "Python" =>
                     /\ options = { [key |-> "languageWorkers__python__arguments",
                                     value |-> <<"getRemoteLauncherCommand", "127.0.0.1",
                                                 <<"9", "0", "9", "1">> >>] }
                     /\ settings.pythonVenv = "undefined" => command = plain
                     /\ settings.pythonVenv # "undefined" =>
                           /\ Len(command) > 1
                           /\ command[Len(command)] = "func host start"
                           /\ \E j \in 1..(Len(command) - 1) : command[j] = settings.pythonVenv
                           /\ command[Len(command) - 2] = "activate"
               /\ lang = "JavaScript" =>
                     /\ options = { [key |-> "languageWorkers__node__arguments",
                                     value |-> <<"--inspect=", <<"5", "8", "5", "8">> >>] }
                     /\ command = plain
               /\ lang = "Java" =>
                     /\ options = { [key |-> "languageWorkers__java__arguments",
                                     value |-> <<"-agentlib:jdwp=transport=dt_socket,server=y,suspend=n,address=",
                                                 <<"5", "0", "0", "5">> >>] }
                     /\ command = plain
               /\ lang \notin {"Python", "JavaScript", "Java"} =>
                     /\ options = {}
                     /\ command = plain

\* C7 witness: provideTasks returned host-start tasks for a Python folder with a
\* venv and for a JavaScript folder.
C7_Witness ==
    /\ mode = "tasks" /\ tpc = "done" /\ tasksOutcome = "returned"
    /\ Len(workspaceFolders.folders) = 2
    /\ workspaceFolders.folders[1].projectLanguage = "Python"
    /\ workspaceFolders.folders[1].pythonVenv # "undefined"
    /\ workspaceFolders.folders[2].projectLanguage = "JavaScript"
    /\ Len(result) = 4

\* The steps of the running deploy, by their place in the log.
Has(step) == \E i \in 1..Len(log) : log[i] = step
Pos(step) == CHOOSE i \in 1..Len(log) : log[i] = step /\ \A j \in 1..(i - 1) : log[j] # step
Before(a, b) == Has(a) /\ Has(b) /\ Pos(a) < Pos(b)

\* C1, as stated: once the pre-deploy task is started and its completion is
\* awaited (listener registered, process still running), a timeout bounds the
\* wait, so runPreDeployTask's promise settles even if no end-of-process event
\* of the pre-deploy task is ever delivered.
C1_TimeoutBoundsWait ==
    (/\ mode = "deploy" /\ dpc = "onDidEndTaskProcess"
     /\ endListener /\ taskProcess = "running")
        ~> (endPromise # "pending")

\* C1, amended: the wait has no timeout; the promise is settled only by an
\* end-of-process event of the pre-deploy task reaching the registered listener
\* (resolved on exit code 0, rejected otherwise), and the await is left only
\* once the promise is settled.
C1_WaitSettledOnlyByEndEvent ==
    [][ /\ (endPromise = "pending" /\ endPromise' # "pending")
            => /\ endListener
               /\ taskProcess = "running" /\ taskProcess' = "ended"
               /\ endPromise' = IF log'[Len(log')] = "preDeployTaskEnded0"
                                   THEN "resolved" ELSE "rejected"
        /\ (dpc = "onDidEndTaskProcess" /\ dpc' # "onDidEndTaskProcess")
            => endPromise # "pending" ]_vars

\* C1 witness: the listener is registered, another task has ended, and the
\* wait is still pending while the pre-deploy task runs.
C1_Witness ==
    /\ mode = "deploy" /\ dpc = "onDidEndTaskProcess"
    /\ endListener /\ endPromise = "pending"
    /\ otherEnds > 0
    /\ taskProcess = "running"

\* C5: a zip deploy that reaches appservice.deploy has taken its steps in this
\* order: node selected, web-content settings verified, runtime verified,
\* confirmation accepted (when shown), pre-deploy task ended with exit code 0
\* (when run), appservice.deploy, the deployment-complete line, the URL listing.
C5_DeployStepOrder ==
    (mode = "deploy" /\ isZipDeploy /\ Has("appservice.deploy"))
        => /\ Before("nodeSelected", "verifyWebContentSettings")
           /\ Before("verifyWebContentSettings", "verifyRuntimeIsCompatible")
           /\ Before("verifyRuntimeIsCompatible", "appservice.deploy")
           /\ Has("confirmShown")
                 => /\ Before("verifyRuntimeIsCompatible", "confirmShown")
                    /\ Before("confirmShown", "confirmAccepted")
                    /\ Before("confirmAccepted", "appservice.deploy")
           /\ Has("executeTask")
                 => /\ Before("verifyRuntimeIsCompatible", "executeTask")
                    /\ Has("confirmShown") => Before("confirmAccepted", "executeTask")
                    /\ Before("executeTask", "preDeployTaskEnded0")
                    /\ Before("preDeployTaskEnded0", "appservice.deploy")
                    /\ ~Has("preDeployTaskEndedNonZero")
           /\ Has("deployComplete") => Before("appservice.deploy", "deployComplete")
           /\ Has("listHttpTriggerUrls") => Before("deployComplete", "listHttpTriggerUrls")

\* C5 witness: a zip deploy with confirmation and pre-deploy task got as far as
\* the URL listing.
C5_Witness ==
    /\ mode = "deploy" /\ isZipDeploy
    /\ Has("confirmAccepted") /\ Has("executeTask")
    /\ Has("appservice.deploy") /\ Has("listHttpTriggerUrls")

\* C9: with the site's source control LocalGit or GitHub, deploy executes no
\* pre-deploy task and shows no overwrite confirmation.
C9_NonZipSkipsTaskAndConfirmation ==
    (mode = "deploy" /\ siteConfig.scmType \in {"LocalGit", "GitHub"})
        => /\ ~Has("executeTask")
           /\ ~Has("confirmShown")

\* C10: the end of the pre-deploy task's process is never missed: the wait is
\* never left pending with the process already ended.
C10_EndEventNeverMissed ==
    ~( /\ mode = "deploy" /\ dpc = "onDidEndTaskProcess"
       /\ taskProcess = "ended"
       /\ endPromise = "pending" )

\* C11: once the pre-deploy task has ended with a non-zero exit code, deploy
\* rejects with the task-failed error, and client.stop and appservice.deploy are
\* never called in that run; the end of another task neither resolves nor
\* rejects the wait.
C11_PreDeployFailureRejects ==
    /\ (mode = "deploy" /\ Has("preDeployTaskEndedNonZero"))
          ~> (mode = "deploy" /\ dpc = "done" /\ deployResult = "taskFailed")
    /\ []((mode = "deploy" /\ Has("preDeployTaskEndedNonZero"))
             => (~Has("client.stop") /\ ~Has("appservice.deploy")))
    /\ [][otherEnds' > otherEnds => endPromise' = endPromise]_vars

\* A task whose name is the pre-deploy task name in some letter case and whose
\* scope is a workspace folder that is the deploy path or lies above it.
NameAndFolderMatch(task) ==
    /\ toLowerCase(task.name) = toLowerCase(taskName)
    /\ task.scope.kind = "folder"
    /\ \E k \in 1..Len(deployFsPath) : SubSeq(deployFsPath, 1, k) = task.scope.fsPath

\* runPreDeployTask has fetched the tasks and looked through them, and nothing
\* has happened since.
TasksFetched ==
    /\ mode = "deploy" /\ Has("fetchTasks")
    /\ \/ dpc = "executeTask"
       \/ /\ dpc \in {"done", "runWithTemporaryDescription"}
          /\ log[Len(log)] \in {"fetchTasks", "noPreDeployTaskWarning"}

\* C12: when no fetched task matches the pre-deploy task name for the deploy
\* folder, a name from the preDeployTask setting makes runPreDeployTask throw
\* and nothing is deployed, while a language default only writes the warning
\* and the deployment goes on.
C12_TaskNotFound ==
    /\ (TasksFetched /\ \A i \in 1..Len(tasks) : ~NameAndFolderMatch(tasks[i]))
          => IF taskSetting # <<>>
                THEN /\ dpc = "done" /\ deployResult = "noPreDeployTaskError"
                     /\ ~Has("noPreDeployTaskWarning")
                ELSE /\ dpc = "runWithTemporaryDescription" /\ deployResult = "none"
                     /\ Has("noPreDeployTaskWarning")
    /\ (mode = "deploy" /\ deployResult = "noPreDeployTaskError")
          => (~Has("executeTask") /\ ~Has("client.stop") /\ ~Has("appservice.deploy"))
    /\ (mode = "deploy" /\ Has("noPreDeployTaskWarning"))
          => (~Has("executeTask") /\ deployResult # "noPreDeployTaskError")

\* C12 witness: the setting named a task, two tasks of that name were fetched,
\* neither for the deploy folder, and deploy has thrown.
C12_Witness ==
    /\ TasksFetched /\ dpc = "done"
    /\ taskSetting # <<>> /\ deployResult = "noPreDeployTaskError"
    /\ Len(tasks) = 2
    /\ \A i \in 1..2 : toLowerCase(tasks[i].name) = toLowerCase(taskName)
    /\ tasks[1] # tasks[2]

\* The pre-deploy task name the setting, the language and the runtime call for;
\* <<>> when they call for none.
ExpectedTaskName ==
    IF taskSetting # <<>> THEN taskSetting
    ELSE IF language = "C#" THEN publishTaskId
    ELSE IF language = "JavaScript" /\ runtime # "~1" THEN extInstallTaskName
    ELSE IF language = "Python" THEN funcPackId
    ELSE <<>>

\* C13: after runPreDeployTask has run for a zip deploy, the task name is the
\* preDeployTask setting when that is defined, else publish for C#, the
\* extensions-install task for JavaScript on a runtime other than v1 and func
\* pack for Python; for JavaScript on v1 and for every other language no task
\* is looked up or run.
C13_PreDeployTaskName ==
    (mode = "deploy" /\ isZipDeploy /\ Has("runPreDeployTask"))
        => IF ExpectedTaskName = <<>>
              THEN /\ taskName = <<>>
                   /\ ~Has("fetchTasks") /\ ~Has("executeTask")
              ELSE /\ taskName = ExpectedTaskName
                   /\ Has("fetchTasks")
                   /\ dpc = "executeTask"
                         => toLowerCase(tasks[preDeployTask].name)
                               = toLowerCase(ExpectedTaskName)

\* C13 witness: without the setting, the extensions-install task of a
\* JavaScript project on runtime v2 is being executed.
C13_Witness ==
    /\ mode = "deploy" /\ isZipDeploy /\ dpc = "executeTask"
    /\ taskSetting = <<>> /\ language = "JavaScript" /\ runtime = "~2"
    /\ taskName = extInstallTaskName

\* C14: the task that is executed is the first of the fetched tasks whose name
\* is the pre-deploy task name in some letter case and whose scope is a
\* workspace folder equal to the deploy path or containing it; a task of that
\* name without a folder scope or scoped to an unrelated folder is not executed.
C14_FirstMatchingTaskExecuted ==
    /\ (mode = "deploy" /\ dpc = "executeTask")
          => /\ preDeployTask \in 1..Len(tasks)
             /\ NameAndFolderMatch(tasks[preDeployTask])
             /\ \A j \in 1..(preDeployTask - 1) : ~NameAndFolderMatch(tasks[j])
    /\ (TasksFetched /\ \E i \in 1..Len(tasks) : NameAndFolderMatch(tasks[i]))
          => dpc = "executeTask"
    /\ (mode = "deploy" /\ Has("executeTask")) => preDeployTask # 0

\* C14 witness: a task of the right name scoped to an unrelated folder comes
\* first, the task scoped to the deploy folder second, and the second one is
\* being executed.
C14_Witness ==
    /\ mode = "deploy" /\ dpc = "executeTask"
    /\ Len(tasks) = 2 /\ preDeployTask = 2
    /\ toLowerCase(tasks[1].name) = toLowerCase(taskName)
    /\ tasks[1].scope.kind = "folder"
    /\ tasks[2].scope.fsPath = deployFsPath

\* deploy has left the try/finally block of lines 110-127.
DeployBlockLeft ==
    /\ mode = "deploy" /\ Has("runWithTemporaryDescription")
    /\ dpc \in {"deployComplete", "listHttpTriggerUrls", "done"}

\* C15: for a Java project client.stop is called before appservice.deploy, and
\* client.start has been called after them when the block is left, whether
\* client.stop and appservice.deploy succeeded or one of them threw; for every
\* other language neither client.stop nor client.start is called.
C15_JavaStopStart ==
    /\ (mode = "deploy" /\ language = "Java")
          => /\ Has("appservice.deploy") => Before("client.stop", "appservice.deploy")
             /\ Has("client.start") => Before("client.stop", "client.start")
             /\ DeployBlockLeft
                   => /\ Has("client.stop") /\ Has("client.start")
                      /\ Has("appservice.deploy")
                            => Before("appservice.deploy", "client.start")
                      /\ pendingError = "stopError" => ~Has("appservice.deploy")
    /\ (mode = "deploy" /\ language # "Java")
          => (~Has("client.stop") /\ ~Has("client.start"))

\* C15 witness: appservice.deploy threw for a Java project, client.start was
\* called all the same, and deploy has rejected with the deploy error.
C15_Witness ==
    /\ mode = "deploy" /\ language = "Java" /\ DeployBlockLeft
    /\ pendingError = "deployError" /\ deployResult = "deployError"
    /\ Has("client.start")

\* C16: the tree-item-created listener is registered exactly while the node is
\* being selected, so newNodes holds the nodes whose creation was reported while
\* the picker was open and no node created later; confirmDeployment is false
\* exactly for a selected node among them; and once the site configuration is
\* known, the overwrite confirmation has been shown exactly when the site is
\* zip-deployed (its source control neither LocalGit nor GitHub) and
\* confirmDeployment is true.
C16_ConfirmationExactlyWhenZipAndNotNew ==
    /\ mode = "deploy" => (onNodeCreated <=> dpc = "selectNode")
    /\ (mode = "deploy" /\ dpc = "getProjectLanguage")
          => /\ newNodes \subseteq created
             /\ confirmDeployment <=> (node \notin newNodes)
    /\ (mode = "deploy" /\ siteConfig # NoSiteConfig)
          => (Has("confirmShown")
                <=> (siteConfig.scmType \notin {"LocalGit", "GitHub"} /\ confirmDeployment))

\* C17: a Python project deployed to an app that is not a Linux preview fails
\* with the not-supported-on-Windows error, and when it does no remote app
\* setting has been updated, no pre-deploy task executed and appservice.deploy
\* not called.
C17_PythonNeedsLinux ==
    /\ (mode = "deploy" /\ language = "Python" /\ ~node.isLinuxPreview)
          => /\ dpc = "done"
             /\ deployResult = "pythonNotAvailableOnWindows"
    /\ (mode = "deploy" /\ deployResult = "pythonNotAvailableOnWindows")
          => /\ language = "Python" /\ ~node.isLinuxPreview
             /\ ~Has("updateApplicationSettings")
             /\ ~Has("fetchTasks") /\ ~Has("executeTask")
             /\ ~Has("client.stop") /\ ~Has("appservice.deploy")

\* C17 witness: a node that is not a Linux preview was selected for a Python
\* project and deploy has failed with the error.
C17_Witness ==
    /\ mode = "deploy" /\ dpc = "done"
    /\ Has("nodeSelected") /\ node # NoNode /\ ~node.isLinuxPreview
    /\ language = "Python"
    /\ deployResult = "pythonNotAvailableOnWindows"

====
